---- MODULE Spec2Model ----
(***************************************************************************)
(* Model of main.py: the vulnerability-report batch script.                *)
(*                                                                         *)
(* A text (file content, file name, model identifier, verdict) is a tuple  *)
(* of one-character strings, so that suffix tests, trimming, substitution  *)
(* and concatenation are computed character by character as the script     *)
(* computes them.                                                          *)
(*                                                                         *)
(* Two specifications share the module:                                    *)
(*   SpecRC  applies remove_comments (once, then again to its own output)  *)
(*           to every text of a bounded set;                               *)
(*   Spec    runs the whole script: configuration loading, the root check, *)
(*           the loop over the models, the walk over the directory, the    *)
(*           per-file try/except, the report and its save.                 *)
(***************************************************************************)
EXTENDS Integers, Sequences, FiniteSets, TLC

VARIABLES
    \* ---- SpecRC: remove_comments as a pure function
    rc_pc,          \* "input" | "once" | "twice"
    rc_text,        \* the input text
    rc_out1,        \* remove_comments(rc_text)
    rc_out2,        \* remove_comments(rc_out1)
    \* ---- Spec: the script
    pc,             \* position of the script
    config,         \* state of config.json: "ok" | "missing" | "nokey" | "malformed"
    rootExists,     \* os.path.isdir(repo_root_directory)
    dirList,        \* names of the files under the root, in os.walk order
    modelIdx,       \* index in GROQ_MODELS_TO_USE of the model being run (0: none yet)
    files,          \* the listing os.walk produced for the current run
    fileIdx,        \* index in files of the last file looked at
    results,        \* all_results_for_report
    sheet,          \* the data rows of the workbook (rows 3..)
    \* ---- history of the run (observations, never read by the script)
    walked,         \* per candidate of the current run: [name, raised]
    discovered,     \* per finished walk: the candidate names, in order
    readFailed,     \* {<<model index, file name>>} whose open/read raised
    calls,          \* <<model index, file name>> of each client.chat.completions.create
    saves,          \* [model, path, ok] of each workbook.save
    faults          \* number of failures injected so far

rcvars == <<rc_pc, rc_text, rc_out1, rc_out2>>
pvars  == <<pc, config, rootExists, dirList, modelIdx, files, fileIdx, results,
            sheet, walked, discovered, readFailed, calls, saves, faults>>
vars   == <<rc_pc, rc_text, rc_out1, rc_out2,
            pc, config, rootExists, dirList, modelIdx, files, fileIdx, results,
            sheet, walked, discovered, readFailed, calls, saves, faults>>

(***************************************************************************)
(* Bounds of the model.                                                    *)
(***************************************************************************)
\* longest input text over the whole alphabet
MaxLen == 4
\* longest input text made of the comment delimiters' characters only
MaxDelimLen == 8
\* most failures (read, remote call, save) injected in one run of the script
MaxFaults == 1

(***************************************************************************)
(* Characters.                                                             *)
(***************************************************************************)
\* "\f" (form feed) is a line boundary for str.splitlines and white space for
\* str.strip, but is matched by the regular expression's "." like any
\* character other than "\n".
Alphabet == {"/", "*", "#", " ", "\n", "\f", "x"}

\* str.strip(): the white-space characters
Whitespace == {" ", "\n", "\f"}

\* str.splitlines(): the line boundaries
LineBreaks == {"\n", "\f"}

(***************************************************************************)
(* str methods.                                                            *)
(***************************************************************************)
RECURSIVE LStrip(_)
LStrip(s) ==
    IF s # <<>> /\ s[1] \in Whitespace THEN LStrip(Tail(s)) ELSE s

RECURSIVE RStrip(_)
RStrip(s) ==
    IF s # <<>> /\ s[Len(s)] \in Whitespace
    THEN RStrip(SubSeq(s, 1, Len(s) - 1)) ELSE s

\* str.strip()
Strip(s) == RStrip(LStrip(s))

\* str.endswith(suffix)
EndsWith(s, suffix) ==
    /\ Len(suffix) <= Len(s)
    /\ SubSeq(s, Len(s) - Len(suffix) + 1, Len(s)) = suffix

\* str.splitlines()
RECURSIVE SplitLines(_)
SplitLines(s) ==
    IF s = <<>> THEN <<>>
    ELSE LET brk == {i \in 1..Len(s) : s[i] \in LineBreaks}
             k   == IF brk = {} THEN Len(s) + 1
                    ELSE CHOOSE i \in brk : \A j \in brk : i <= j
         IN  <<SubSeq(s, 1, k - 1)>> \o
             (IF k >= Len(s) THEN <<>> ELSE SplitLines(SubSeq(s, k + 1, Len(s))))

\* "\n".join(lines)
RECURSIVE JoinLines(_)
JoinLines(lines) ==
    IF lines = <<>> THEN <<>>
    ELSE IF Len(lines) = 1 THEN lines[1]
    ELSE lines[1] \o <<"\n">> \o JoinLines(Tail(lines))

\* [f(x) for x in seq]
StripAll(lines) == [i \in 1..Len(lines) |-> Strip(lines[i])]

(***************************************************************************)
(* remove_comments.                                                        *)
(***************************************************************************)
\* "*/" at position j of s
CloserAt(s, j) == j + 1 <= Len(s) /\ s[j] = "*" /\ s[j + 1] = "/"

\* "/*" at position i of s
OpenerAt(s, i) == i + 1 <= Len(s) /\ s[i] = "/" /\ s[i + 1] = "*"

\* re.sub(r'/\*.*?\*/', '', code, flags=re.DOTALL): one pass from the left; at
\* an opener that has a closer after it, the text up to the nearest closer is
\* dropped and the scan resumes after that closer.
RECURSIVE StripBlockComments(_)
StripBlockComments(s) ==
    IF s = <<>> THEN <<>>
    ELSE IF OpenerAt(s, 1) /\ \E j \in 3..Len(s) : CloserAt(s, j)
    THEN LET j == CHOOSE j \in 3..Len(s) :
                      CloserAt(s, j) /\ \A k \in 3..(j - 1) : ~CloserAt(s, k)
         IN  StripBlockComments(SubSeq(s, j + 2, Len(s)))
    ELSE <<s[1]>> \o StripBlockComments(Tail(s))

\* the text from the first "\n" on ("." matches every character but "\n")
RECURSIVE DropToNewline(_)
DropToNewline(s) ==
    IF s = <<>> \/ s[1] = "\n" THEN s ELSE DropToNewline(Tail(s))

\* "//" or "#" at the head of s
MarkerAtHead(s) ==
    s # <<>> /\ (s[1] = "#" \/ (Len(s) >= 2 /\ s[1] = "/" /\ s[2] = "/"))

\* re.sub(r'(//|#).*', '', code)
RECURSIVE StripLineComments(_)
StripLineComments(s) ==
    IF s = <<>> THEN <<>>
    ELSE IF MarkerAtHead(s) THEN StripLineComments(DropToNewline(s))
    ELSE <<s[1]>> \o StripLineComments(Tail(s))

\* "\n".join(line.strip() for line in code.splitlines() if line.strip())
JoinStrippedLines(s) ==
    JoinLines(StripAll(SelectSeq(SplitLines(s), LAMBDA l : Strip(l) # <<>>)))

remove_comments(code) ==
    JoinStrippedLines(StripLineComments(StripBlockComments(code)))

(***************************************************************************)
(* SpecRC: remove_comments on every text of a bounded set.                 *)
(***************************************************************************)
\* "// hello\nint x = 1; # trailing\n\n   \n"
ExampleText ==
    <<"/","/"," ","h","e","l","l","o","\n","i","n","t"," ","x"," ","="," ","1",
      ";"," ","#"," ","t","r","a","i","l","i","n","g","\n","\n"," "," "," ","\n">>

\* "int x = 1;"
ExampleNormalized == <<"i","n","t"," ","x"," ","="," ","1",";">>

Texts ==
    UNION {[1..n -> Alphabet] : n \in 0..MaxLen}
    \cup UNION {[1..n -> {"/", "*"}] : n \in 0..MaxDelimLen}
    \cup {ExampleText}

ScriptIdle ==
    /\ pc = "idle" /\ config = "ok" /\ rootExists = TRUE /\ dirList = <<>>
    /\ modelIdx = 0 /\ files = <<>> /\ fileIdx = 0 /\ results = <<>>
    /\ sheet = <<>> /\ walked = <<>> /\ discovered = <<>> /\ readFailed = {}
    /\ calls = <<>> /\ saves = <<>> /\ faults = 0

InitRC ==
    /\ rc_pc = "input"
    /\ rc_text \in Texts
    /\ rc_out1 = <<>>
    /\ rc_out2 = <<>>
    /\ ScriptIdle

\* cleaned_code = remove_comments(original_code)
Normalize ==
    /\ rc_pc = "input"
    /\ rc_out1' = remove_comments(rc_text)
    /\ rc_pc' = "once"
    /\ UNCHANGED <<rc_text, rc_out2>>
    /\ UNCHANGED pvars

\* remove_comments applied to its own output
Renormalize ==
    /\ rc_pc = "once"
    /\ rc_out2' = remove_comments(rc_out1)
    /\ rc_pc' = "twice"
    /\ UNCHANGED <<rc_text, rc_out1>>
    /\ UNCHANGED pvars

NextRC == Normalize \/ Renormalize

SpecRC == InitRC /\ [][NextRC]_vars

(***************************************************************************)
(* The script's constants.                                                 *)
(***************************************************************************)
CODE_FILE_EXTENSIONS == {
    <<".","c","p","p">>, <<".","c">>, <<".","h">>, <<".","h","p","p">>,
    <<".","j","a","v","a">>, <<".","p","y">>, <<".","j","s">>, <<".","t","s">>,
    <<".","c","c">>, <<".","h","t","m","l">>, <<".","c","s","s">>,
    <<".","g","o">>, <<".","r","s">>, <<".","p","h","p">>, <<".","r","b">>,
    <<".","s","w","i","f","t">>, <<".","k","t">> }

GROQ_MODELS_TO_USE == <<
    \* "moonshotai/kimi-k2-instruct-0905"
    <<"m","o","o","n","s","h","o","t","a","i","/","k","i","m","i","-","k","2",
      "-","i","n","s","t","r","u","c","t","-","0","9","0","5">>,
    \* "qwen/qwen3-32b"
    <<"q","w","e","n","/","q","w","e","n","3","-","3","2","b">>,
    \* "gemma2-9b-it"
    <<"g","e","m","m","a","2","-","9","b","-","i","t">>,
    \* "meta-llama/Llama-Guard-4-12B"
    <<"m","e","t","a","-","l","l","a","m","a","/","L","l","a","m","a","-","G",
      "u","a","r","d","-","4","-","1","2","B">>,
    \* "llama-3.3-70b-versatile"
    <<"l","l","a","m","a","-","3",".","3","-","7","0","b","-","v","e","r","s",
      "a","t","i","l","e">>,
    \* "llama-3.1-8b-instant"
    <<"l","l","a","m","a","-","3",".","1","-","8","b","-","i","n","s","t","a",
      "n","t">>,
    \* "meta-llama/llama-4-maverick-17b-128e-instruct"
    <<"m","e","t","a","-","l","l","a","m","a","/","l","l","a","m","a","-","4",
      "-","m","a","v","e","r","i","c","k","-","1","7","b","-","1","2","8","e",
      "-","i","n","s","t","r","u","c","t">>,
    \* "meta-llama/llama-4-scout-17b-16e-instruct"
    <<"m","e","t","a","-","l","l","a","m","a","/","l","l","a","m","a","-","4",
      "-","s","c","o","u","t","-","1","7","b","-","1","6","e","-","i","n","s",
      "t","r","u","c","t">> >>

NumModels == Len(GROQ_MODELS_TO_USE)

\* os.path.basename(repo_root_directory): "vconsole"
folder_name == <<"v","c","o","n","s","o","l","e">>

\* "O arquivo original estava vazio."
EMPTY_FILE_CODE ==
    <<"O"," ","a","r","q","u","i","v","o"," ","o","r","i","g","i","n","a","l",
      " ","e","s","t","a","v","a"," ","v","a","z","i","o",".">>

\* "Não analisado (arquivo vazio)."
EMPTY_FILE_ANALYSIS ==
    <<"N","ã","o"," ","a","n","a","l","i","s","a","d","o"," ","(","a","r","q",
      "u","i","v","o"," ","v","a","z","i","o",")",".">>

\* "Não analisado (vazio após remoção de comentários)."
EMPTY_CLEANED_ANALYSIS ==
    <<"N","ã","o"," ","a","n","a","l","i","s","a","d","o"," ","(","v","a","z",
      "i","o"," ","a","p","ó","s"," ","r","e","m","o","ç","ã","o"," ","d","e",
      " ","c","o","m","e","n","t","á","r","i","o","s",")",".">>

\* "Erro durante a leitura ou processamento do arquivo."
ERROR_CODE ==
    <<"E","r","r","o"," ","d","u","r","a","n","t","e"," ","a"," ","l","e","i",
      "t","u","r","a"," ","o","u"," ","p","r","o","c","e","s","s","a","m","e",
      "n","t","o"," ","d","o"," ","a","r","q","u","i","v","o",".">>

\* "Erro: "
ERROR_PREFIX == <<"E","r","r","o",":"," ">>

\* "Nenhum arquivo de código foi encontrado ou processado."
NO_FILES_ROW ==
    <<"N","e","n","h","u","m"," ","a","r","q","u","i","v","o"," ","d","e"," ",
      "c","ó","d","i","g","o"," ","f","o","i"," ","e","n","c","o","n","t","r",
      "a","d","o"," ","o","u"," ","p","r","o","c","e","s","s","a","d","o",".">>

(***************************************************************************)
(* File discovery and the report's path.                                   *)
(***************************************************************************)
\* mutation: no extension filter
IsCandidate_any(filename) == TRUE

\* any(filename.endswith(ext) for ext in CODE_FILE_EXTENSIONS)
IsCandidate(filename) ==
    \E ext \in CODE_FILE_EXTENSIONS : EndsWith(filename, ext)

\* str.replace(old, new) for one-character old and new
Replace(s, old, new) ==
    [i \in 1..Len(s) |-> IF s[i] = old THEN new ELSE s[i]]

\* sanitized_model_name = model.replace("/", "-")
sanitized_model_name(model) == Replace(model, "/", "-")

\* output_filename = f"{folder_name} - {sanitized_model_name}.xlsx"; it is
\* joined to repo_root_directory, so the report lands in the scanned root.
output_filename(model) ==
    folder_name \o <<" ","-"," ">> \o sanitized_model_name(model)
                \o <<".","x","l","s","x">>

(***************************************************************************)
(* The environment: the files under the root, the failures, the service.   *)
(***************************************************************************)
\* "m.c": code with a trailing line comment
SrcC == <<"m",".","c">>
\* "b.py": white space only
BlankPy == <<"b",".","p","y">>
\* "e.js": zero bytes
EmptyJs == <<"e",".","j","s">>
\* "c.h": one block comment and nothing else
CommentH == <<"c",".","h">>
\* "n.txt": not a code file
NotesTxt == <<"n",".","t","x","t">>

Universe == <<NotesTxt, SrcC, BlankPy, CommentH, EmptyJs>>

\* what f.read() returns for a file of the root
FileText(name) ==
    CASE name = SrcC     -> <<" ","x"," ","/","/","x","\n">>
      [] name = BlankPy  -> <<" ","\n">>
      [] name = EmptyJs  -> <<>>
      [] name = CommentH -> <<" ","/","*","x","*","/","\n">>
      [] OTHER           -> <<"x">>

\* the listings os.walk may produce: the files of Universe that are present
Listings ==
    { SelectSeq(Universe, LAMBDA n : n \in present) :
          present \in SUBSET {Universe[i] : i \in 1..Len(Universe)} }

\* str(e) of an exception raised by open()/read()
ReadErrors == { <<"d","e","n","i","e","d">> }
\* str(e) of an exception raised by the remote call or by reading its answer
ApiErrors == { <<"4","2","9">> }
\* chat_completion.choices[0].message.content
Responses == { <<" ","N","O","\n">>, <<"Y","E","S">> }

ConfigStates == {"ok", "missing", "nokey", "malformed"}

(***************************************************************************)
(* The records analyze_code_files appends to all_results_for_report.       *)
(***************************************************************************)
\* not original_code.strip() / not cleaned_code.strip()
IsBlank(text) == Strip(text) = <<>>

EmptyRecord(filename) ==
    [filename |-> filename, code |-> EMPTY_FILE_CODE,
     analysis |-> EMPTY_FILE_ANALYSIS]

\* mutation: the placeholder of the empty file instead of original_code
CommentOnlyRecord_placeholder(filename, original_code) ==
    [filename |-> filename, code |-> EMPTY_FILE_CODE,
     analysis |-> EMPTY_CLEANED_ANALYSIS]

CommentOnlyRecord(filename, original_code) ==
    [filename |-> filename, code |-> original_code,
     analysis |-> EMPTY_CLEANED_ANALYSIS]

AnalysedRecord(filename, cleaned_code, analysis_result) ==
    [filename |-> filename, code |-> cleaned_code,
     analysis |-> Strip(analysis_result)]

\* mutation: the error text without the "Erro: " prefix
ErrorRecord_bare(filename, e) ==
    [filename |-> filename, code |-> ERROR_CODE, analysis |-> e]

ErrorRecord(filename, e) ==
    [filename |-> filename, code |-> ERROR_CODE, analysis |-> ERROR_PREFIX \o e]

\* mutation: a file whose processing raised is tried again
NextFileIdx_retry(i, raised) == IF raised THEN i ELSE i + 1

\* for filename in files: the loop moves on to the next file, whether the
\* body ended normally, by continue, or in the except block
NextFileIdx(i, raised) == i + 1

\* mutation: the second emptiness test is missing
CleanedIsEmpty_never(cleaned_code) == FALSE

\* if not cleaned_code.strip()
CleanedIsEmpty(cleaned_code) == IsBlank(cleaned_code)

\* mutation: the script goes on without the root directory
RootIsDir_ignored == TRUE

\* os.path.isdir(repo_root_directory)
RootIsDir == rootExists

\* mutation: the exception of workbook.save is not caught
AfterSaveError_raise == "crashed"

\* except Exception as e: print(...); analyze_code_files returns normally
AfterSaveError == "next_model"

\* the data rows written for one record
Row(result) == <<result.filename, Strip(result.code), result.analysis>>

\* rows 3.. of the sheet
DataRows(all_results) ==
    IF all_results = <<>> THEN << <<NO_FILES_ROW>> >>
    ELSE [i \in 1..Len(all_results) |-> Row(all_results[i])]

(***************************************************************************)
(* Spec: the script.                                                       *)
(***************************************************************************)
RCIdle ==
    rc_pc = "idle" /\ rc_text = <<>> /\ rc_out1 = <<>> /\ rc_out2 = <<>>

Init ==
    /\ RCIdle
    /\ pc = "start"
    /\ config \in ConfigStates
    /\ rootExists \in BOOLEAN
    /\ dirList \in (IF rootExists THEN Listings ELSE {<<>>})
    /\ modelIdx = 0
    /\ files = <<>>
    /\ fileIdx = 0
    /\ results = <<>>
    /\ sheet = <<>>
    /\ walked = <<>>
    /\ discovered = <<>>
    /\ readFailed = {}
    /\ calls = <<>>
    /\ saves = <<>>
    /\ faults = 0

\* config.json is read and holds "api_key"
LoadConfigOk ==
    /\ pc = "start"
    /\ config = "ok"
    /\ pc' = "check_root"
    /\ UNCHANGED <<config, rootExists, dirList, modelIdx, files, fileIdx,
                   results, sheet, walked, discovered, readFailed, calls,
                   saves, faults>>
    /\ UNCHANGED rcvars

\* FileNotFoundError or KeyError: sys.exit(1)
LoadConfigExit ==
    /\ pc = "start"
    /\ config \in {"missing", "nokey"}
    /\ pc' = "exited"
    /\ UNCHANGED <<config, rootExists, dirList, modelIdx, files, fileIdx,
                   results, sheet, walked, discovered, readFailed, calls,
                   saves, faults>>
    /\ UNCHANGED rcvars

\* json.load raises JSONDecodeError, which no except clause names: the
\* interpreter ends the process with a traceback
LoadConfigCrash ==
    /\ pc = "start"
    /\ config = "malformed"
    /\ pc' = "crashed"
    /\ UNCHANGED <<config, rootExists, dirList, modelIdx, files, fileIdx,
                   results, sheet, walked, discovered, readFailed, calls,
                   saves, faults>>
    /\ UNCHANGED rcvars

\* if not os.path.isdir(repo_root_directory): two messages, end of script
RootMissing ==
    /\ pc = "check_root"
    /\ ~RootIsDir
    /\ pc' = "done"
    /\ UNCHANGED <<config, rootExists, dirList, modelIdx, files, fileIdx,
                   results, sheet, walked, discovered, readFailed, calls,
                   saves, faults>>
    /\ UNCHANGED rcvars

\* else: the loop over GROQ_MODELS_TO_USE is entered
EnterLoop ==
    /\ pc = "check_root"
    /\ RootIsDir
    /\ pc' = "next_model"
    /\ UNCHANGED <<config, rootExists, dirList, modelIdx, files, fileIdx,
                   results, sheet, walked, discovered, readFailed, calls,
                   saves, faults>>
    /\ UNCHANGED rcvars

\* for model in GROQ_MODELS_TO_USE: analyze_code_files starts with an empty
\* result list; os.walk lists the root as it is now
StartModel ==
    /\ pc = "next_model"
    /\ modelIdx < NumModels
    /\ modelIdx' = modelIdx + 1
    /\ files' = dirList
    /\ fileIdx' = 0
    /\ results' = <<>>
    /\ sheet' = <<>>
    /\ walked' = <<>>
    /\ pc' = "walk"
    /\ UNCHANGED <<config, rootExists, dirList, discovered, readFailed, calls,
                   saves, faults>>
    /\ UNCHANGED rcvars

\* the list of models is exhausted: the script ends
Finish ==
    /\ pc = "next_model"
    /\ modelIdx = NumModels
    /\ pc' = "done"
    /\ UNCHANGED <<config, rootExists, dirList, modelIdx, files, fileIdx,
                   results, sheet, walked, discovered, readFailed, calls,
                   saves, faults>>
    /\ UNCHANGED rcvars

\* the file os.walk yields next
CurrentFile == files[fileIdx + 1]

AtFile == pc = "walk" /\ fileIdx < Len(files)

\* the name ends with none of the extensions: nothing is done
SkipFile ==
    /\ AtFile
    /\ ~IsCandidate(CurrentFile)
    /\ fileIdx' = fileIdx + 1
    /\ UNCHANGED <<pc, config, rootExists, dirList, modelIdx, files, results,
                   sheet, walked, discovered, readFailed, calls, saves, faults>>
    /\ UNCHANGED rcvars

\* open()/f.read() raises: the except block records the error
ReadError ==
    /\ AtFile
    /\ IsCandidate(CurrentFile)
    /\ faults < MaxFaults
    /\ \E e \in ReadErrors :
          /\ results' = Append(results, ErrorRecord(CurrentFile, e))
          /\ walked' = Append(walked, [name |-> CurrentFile, raised |-> e,
                                       response |-> <<>>])
    /\ readFailed' = readFailed \cup {<<modelIdx, CurrentFile>>}
    /\ faults' = faults + 1
    /\ fileIdx' = NextFileIdx(fileIdx, TRUE)
    /\ UNCHANGED <<pc, config, rootExists, dirList, modelIdx, files, sheet,
                   discovered, calls, saves>>
    /\ UNCHANGED rcvars

\* the text is empty or white space: placeholder record, continue
EmptyFile ==
    /\ AtFile
    /\ IsCandidate(CurrentFile)
    /\ IsBlank(FileText(CurrentFile))
    /\ results' = Append(results, EmptyRecord(CurrentFile))
    /\ walked' = Append(walked, [name |-> CurrentFile, raised |-> <<>>,
                                 response |-> <<>>])
    /\ fileIdx' = NextFileIdx(fileIdx, FALSE)
    /\ UNCHANGED <<pc, config, rootExists, dirList, modelIdx, files, sheet,
                   discovered, readFailed, calls, saves, faults>>
    /\ UNCHANGED rcvars

\* nothing is left after remove_comments: record with original_code, continue
EmptyAfterClean ==
    /\ AtFile
    /\ IsCandidate(CurrentFile)
    /\ ~IsBlank(FileText(CurrentFile))
    /\ CleanedIsEmpty(remove_comments(FileText(CurrentFile)))
    /\ results' = Append(results,
                         CommentOnlyRecord(CurrentFile, FileText(CurrentFile)))
    /\ walked' = Append(walked, [name |-> CurrentFile, raised |-> <<>>,
                                 response |-> <<>>])
    /\ fileIdx' = NextFileIdx(fileIdx, FALSE)
    /\ UNCHANGED <<pc, config, rootExists, dirList, modelIdx, files, sheet,
                   discovered, readFailed, calls, saves, faults>>
    /\ UNCHANGED rcvars

\* client.chat.completions.create (or the reading of its answer) raises
CallError ==
    /\ AtFile
    /\ IsCandidate(CurrentFile)
    /\ ~IsBlank(FileText(CurrentFile))
    /\ ~CleanedIsEmpty(remove_comments(FileText(CurrentFile)))
    /\ faults < MaxFaults
    /\ calls' = Append(calls, <<modelIdx, CurrentFile>>)
    /\ \E e \in ApiErrors :
          /\ results' = Append(results, ErrorRecord(CurrentFile, e))
          /\ walked' = Append(walked, [name |-> CurrentFile, raised |-> e,
                                       response |-> <<>>])
    /\ faults' = faults + 1
    /\ fileIdx' = NextFileIdx(fileIdx, TRUE)
    /\ UNCHANGED <<pc, config, rootExists, dirList, modelIdx, files, sheet,
                   discovered, readFailed, saves>>
    /\ UNCHANGED rcvars

\* client.chat.completions.create answers: record with cleaned_code
CallOk ==
    /\ AtFile
    /\ IsCandidate(CurrentFile)
    /\ ~IsBlank(FileText(CurrentFile))
    /\ ~CleanedIsEmpty(remove_comments(FileText(CurrentFile)))
    /\ calls' = Append(calls, <<modelIdx, CurrentFile>>)
    /\ \E r \in Responses :
          /\ results' = Append(results,
                 AnalysedRecord(CurrentFile,
                                remove_comments(FileText(CurrentFile)), r))
          /\ walked' = Append(walked, [name |-> CurrentFile, raised |-> <<>>,
                                       response |-> r])
    /\ fileIdx' = NextFileIdx(fileIdx, FALSE)
    /\ UNCHANGED <<pc, config, rootExists, dirList, modelIdx, files, sheet,
                   discovered, readFailed, saves, faults>>
    /\ UNCHANGED rcvars

\* os.walk is exhausted
WalkDone ==
    /\ pc = "walk"
    /\ fileIdx = Len(files)
    /\ discovered' = Append(discovered,
                            [i \in 1..Len(walked) |-> walked[i].name])
    /\ pc' = "report"
    /\ UNCHANGED <<config, rootExists, dirList, modelIdx, files, fileIdx,
                   results, sheet, walked, readFailed, calls, saves, faults>>
    /\ UNCHANGED rcvars

\* the workbook is filled: title, headers, one row per record
BuildReport ==
    /\ pc = "report"
    /\ sheet' = DataRows(results)
    /\ pc' = "save"
    /\ UNCHANGED <<config, rootExists, dirList, modelIdx, files, fileIdx,
                   results, walked, discovered, readFailed, calls, saves,
                   faults>>
    /\ UNCHANGED rcvars

\* the path analyze_code_files is given for the current model
output_report_path == output_filename(GROQ_MODELS_TO_USE[modelIdx])

\* workbook.save(output_excel_path) succeeds: the file is in the root
SaveOk ==
    /\ pc = "save"
    /\ rootExists
    /\ dirList' = IF \E i \in 1..Len(dirList) : dirList[i] = output_report_path
                  THEN dirList ELSE Append(dirList, output_report_path)
    /\ saves' = Append(saves, [model |-> modelIdx, path |-> output_report_path,
                               ok |-> TRUE])
    /\ pc' = "next_model"
    /\ UNCHANGED <<config, rootExists, modelIdx, files, fileIdx, results,
                   sheet, walked, discovered, readFailed, calls, faults>>
    /\ UNCHANGED rcvars

\* workbook.save raises: the error is printed, nothing else is done
SaveError ==
    /\ pc = "save"
    /\ faults < MaxFaults \/ ~rootExists
    /\ saves' = Append(saves, [model |-> modelIdx, path |-> output_report_path,
                               ok |-> FALSE])
    /\ faults' = IF rootExists THEN faults + 1 ELSE faults
    /\ pc' = AfterSaveError
    /\ UNCHANGED <<config, rootExists, dirList, modelIdx, files, fileIdx,
                   results, sheet, walked, discovered, readFailed, calls>>
    /\ UNCHANGED rcvars

Next ==
    \/ LoadConfigOk \/ LoadConfigExit \/ LoadConfigCrash
    \/ RootMissing \/ EnterLoop
    \/ StartModel \/ Finish
    \/ SkipFile \/ ReadError \/ EmptyFile \/ EmptyAfterClean
    \/ CallError \/ CallOk \/ WalkDone
    \/ BuildReport \/ SaveOk \/ SaveError

Spec == Init /\ [][Next]_vars

(***************************************************************************)
(* Properties.                                                             *)
(***************************************************************************)
Range(seq) == {seq[i] : i \in 1..Len(seq)}

\* the candidates among the files the walk has passed, in listing order
CandidatesPassed == SelectSeq(SubSeq(files, 1, fileIdx), IsCandidate)

\* the record a candidate gets when nothing raises, by the script's rules
NoFailureRecord(name, response) ==
    LET text    == FileText(name)
        cleaned == remove_comments(text)
    IN  IF Strip(text) = <<>>
        THEN [filename |-> name, code |-> EMPTY_FILE_CODE,
              analysis |-> EMPTY_FILE_ANALYSIS]
        ELSE IF cleaned = <<>>
        THEN [filename |-> name, code |-> text,
              analysis |-> EMPTY_CLEANED_ANALYSIS]
        ELSE [filename |-> name, code |-> cleaned,
              analysis |-> Strip(response)]

\* C1: the result list holds exactly one record per discovered file, in
\* discovery order; a file whose processing raised has the verdict "Erro: "
\* followed by the error text, the walk goes on after it, and every other
\* file has the record it has when nothing fails.
C1_OneRecordPerFile ==
    pc \in {"walk", "report", "save"} =>
        LET passed == CandidatesPassed IN
        /\ Len(results) = Len(passed)
        /\ Len(walked) = Len(results)
        /\ \A i \in 1..Len(results) :
              /\ results[i].filename = passed[i]
              /\ walked[i].name = passed[i]
              /\ IF walked[i].raised # <<>>
                 THEN results[i].analysis = ERROR_PREFIX \o walked[i].raised
                 ELSE results[i] =
                          NoFailureRecord(walked[i].name, walked[i].response)
        /\ (pc \in {"report", "save"} => fileIdx = Len(files))
        /\ (pc = "save" /\ results # <<>> => Len(sheet) = Len(results))

\* a walk of three or more candidates is over; one of them raised, after a
\* file that was analysed and before a file that was processed normally
C1_Witness ==
    /\ pc = "report"
    /\ Len(results) >= 3
    /\ \E h, i, j \in 1..Len(results) :
          /\ h < i /\ i < j
          /\ walked[h].raised = <<>> /\ results[h].analysis = <<"N","O">>
          /\ walked[i].raised # <<>>
          /\ walked[j].raised = <<>>

\* C2: once the fatal preconditions pass, every model of the list is run and
\* gets one save attempt, in list order, and the script reaches the end of
\* the list whatever per-file error or save error occurs on the way: a
\* failure leaves the script inside the loop, and the script ends only with
\* the list exhausted.
C2_AllModelsRun ==
    /\ \A i \in 1..Len(saves) : saves[i].model = i
    /\ Len(discovered) = (IF pc = "walk" THEN modelIdx - 1 ELSE modelIdx)
    /\ Len(saves) =
           (IF pc \in {"walk", "report", "save"} THEN modelIdx - 1 ELSE modelIdx)
    /\ (pc = "crashed" => config = "malformed")
    /\ (pc = "exited" => config \in {"missing", "nokey"})
    /\ (faults > 0 => pc \in {"walk", "report", "save", "next_model", "done"})
    /\ (pc = "walk" => fileIdx <= Len(files))
    /\ (pc \in {"walk", "report", "save"} => modelIdx \in 1..NumModels)
    /\ (pc = "next_model" => modelIdx \in 0..NumModels)
    /\ (pc = "done" /\ rootExists =>
            /\ modelIdx = NumModels
            /\ Len(saves) = NumModels
            /\ Len(discovered) = NumModels)

\* the script is over; the first model's save failed and the other models
\* were run all the same
C2_Witness ==
    /\ pc = "done"
    /\ Len(saves) = NumModels
    /\ ~saves[1].ok
    /\ saves[NumModels].ok

\* C3: a file whose text is empty or white space, or is empty after comment
\* removal, gets a "not analysed" placeholder verdict and the remote service
\* is never called for it.
C3_EmptyNotSubmitted ==
    \A i \in 1..Len(walked) :
        LET name == walked[i].name
            text == FileText(name)
        IN  (walked[i].raised = <<>>
                 /\ (Strip(text) = <<>> \/ remove_comments(text) = <<>>)) =>
                /\ results[i].analysis =
                       (IF Strip(text) = <<>> THEN EMPTY_FILE_ANALYSIS
                        ELSE EMPTY_CLEANED_ANALYSIS)
                /\ \A k \in 1..Len(calls) : calls[k] # <<modelIdx, name>>

\* a walk is over that met the blank file, the zero-byte file and the
\* comment-only file, and read them all
C3_Witness ==
    /\ pc = "report"
    /\ \A n \in {BlankPy, EmptyJs, CommentH} :
          \E i \in 1..Len(walked) :
              walked[i].name = n /\ walked[i].raised = <<>>

\* C4: with the configuration file missing or malformed, the key missing, or
\* the root directory missing, no model is processed, no file is read, no
\* remote call is made and no report is written.
C4_FatalPreconditions ==
    (config # "ok" \/ ~rootExists) =>
        /\ pc \in {"start", "check_root", "exited", "crashed", "done"}
        /\ modelIdx = 0
        /\ files = <<>>
        /\ walked = <<>>
        /\ discovered = <<>>
        /\ readFailed = {}
        /\ calls = <<>>
        /\ saves = <<>>

\* the script ended at the root check, the configuration being fine
C4_Witness == pc = "done" /\ ~rootExists /\ config = "ok"

C9_OneCallPerPair ==
    LET callSet == Range(calls) IN
    /\ Cardinality(callSet) = Len(calls)
    /\ \A c \in callSet :
          /\ c[1] \in 1..modelIdx
          /\ c[1] <= Len(discovered) => c[2] \in Range(discovered[c[1]])
    /\ \A n \in Range(files) :
          LET submitted == remove_comments(FileText(n)) # <<>> IN
          \A m \in 1..Len(discovered) :
              n \in Range(discovered[m]) =>
                  ((<<m, n>> \in callSet) <=>
                       (submitted /\ <<m, n>> \notin readFailed))

\* the script is over, one remote call failed, and the file it failed for was
\* submitted once per model all the same
C9_Witness ==
    /\ pc = "done"
    /\ faults = 1
    /\ readFailed = {}
    /\ \A i \in 1..Len(saves) : saves[i].ok
    /\ Len(calls) = NumModels

\* C10: every model's run discovers the same candidates; no report written
\* by an earlier run is ever selected.
C10_SameCandidatesEveryRun ==
    \A m \in 1..Len(discovered) :
        /\ discovered[m] = discovered[1]
        /\ \A k \in 1..Len(saves) : saves[k].path \notin Range(discovered[m])
        /\ (m = modelIdx /\ pc # "walk" =>
                discovered[m] = SelectSeq(files, IsCandidate))

\* the last walk is over, earlier runs have left their reports in the root
\* that was walked, and the candidates are those of the first run
C10_Witness ==
    /\ Len(discovered) = NumModels
    /\ discovered[1] # <<>>
    /\ \A k \in 1..Len(saves) : saves[k].ok /\ saves[k].path \in Range(files)
    /\ Len(saves) = NumModels - 1

\* "/*" with a "*/" after it
HasBlockComment(s) ==
    \E i \in 1..Len(s) : \E j \in 1..Len(s) :
        OpenerAt(s, i) /\ j >= i + 2 /\ CloserAt(s, j)

\* C5: remove_comments is idempotent.
C5_Idempotent == rc_pc = "twice" => rc_out2 = rc_out1

\* C6: the output of remove_comments contains no "/*" followed later by "*/".
C6_NoBlockCommentInOutput ==
    rc_pc \in {"once", "twice"} => ~HasBlockComment(rc_out1)

\* the line up to its first "//" or "#"
RECURSIVE CutAtMarker(_)
CutAtMarker(line) ==
    IF line = <<>> \/ MarkerAtHead(line) THEN <<>>
    ELSE <<line[1]>> \o CutAtMarker(Tail(line))

\* each line cut at its first marker, trimmed, the empty ones dropped, joined
CutTrimJoin(text) ==
    LET lines == SplitLines(text)
        cut   == [i \in 1..Len(lines) |-> Strip(CutAtMarker(lines[i]))]
    IN  JoinLines(SelectSeq(cut, LAMBDA l : l # <<>>))

\* C8: for a text with no block comment, remove_comments returns the lines of
\* the text, each cut at the first "//" or "#" of that line and trimmed, the
\* empty ones dropped, joined by newlines; the example text gives
\* "int x = 1;".
C8_LineCommentsPerLine ==
    (rc_pc \in {"once", "twice"} /\ ~HasBlockComment(rc_text)) =>
        /\ rc_out1 = CutTrimJoin(rc_text)
        /\ (rc_text = ExampleText => rc_out1 = ExampleNormalized)

====
